---- MODULE Spec2Model ----
(***************************************************************************)
(* A model of rencpp's extension-function binding layer                    *)
(* (include/rencpp/extension.hpp): the per-signature dispatch table of     *)
(* FunctionGenerator, the process-wide capture slots and their mutex, the  *)
(* self-identifying shim generated by REN_STD_FUNCTION, and bounceShim,    *)
(* which looks an entry up and applies the callable to the arguments it    *)
(* constructs from the stack.                                              *)
(*                                                                         *)
(* Every thread runs either a FunctionGenerator constructor (a             *)
(* registration) or a call of a registered function made by the runtime.   *)
(* Each action is one statement of the code, so that the interleavings     *)
(* threads can produce are the interleavings of the model.                 *)
(*                                                                         *)
(* Where the language leaves the behaviour open, the model takes every     *)
(* outcome: a failed assert aborts (a debug build) or is not there         *)
(* (NDEBUG); the arguments of a call are evaluated in any order; locking   *)
(* a std::mutex the thread already owns deadlocks or throws.               *)
(***************************************************************************)
EXTENDS Integers, Sequences, FiniteSets, TLC

\* ------------------------------------------------------------------ bounds

\* How many registrations (constructor calls) a behaviour may start.
MaxRegistrations == 3

\* How many calls of registered functions the runtime may make.
MaxInvocations == 2

\* ------------------------------------------------------- program constants

\* The value of an id that is not set: shimIdToCapture and a shim's static id.
Unset == -1

\* The null function pointer.
Nullptr == "nullptr"

REN_SUCCESS == "REN_SUCCESS"

REN_SHIM_INITIALIZED == "REN_SHIM_INITIALIZED"

\* ------------------------------------------------------------- the inputs

Threads == {1, 2}

NoThread == 0

\* Two instantiations FunctionGenerator<R, Ts...>: Integer(Integer, Integer)
\* and Integer(Integer). Each has its own static table and its own bounceShim.
Signatures == {"IntInt", "Int"}

\* sizeof...(Ts)
Arity(sig) == IF sig = "IntInt" THEN 2 ELSE 1

\* utility::make_indices<sizeof...(Ts)>: the parameter positions, from 0.
Indices(sig) == 0 .. (Arity(sig) - 1)

\* Shims written with REN_STD_FUNCTION: each expansion is a lambda with its
\* own static id and bouncer.
StdShims == {"shimA", "shimB"}

\* A RenShimPointer that is not an expansion of REN_STD_FUNCTION: it returns
\* REN_SUCCESS whatever it is called with.
ForeignShims == {"shimX"}

Shims == StdShims \cup ForeignShims

\* Engine::runFinder().getHandle(): the engine a thread registers with.
EngineOf(t) == IF t = 1 THEN "engine1" ELSE "engine2"

\* The callable a call of makeFunction passes with a shim: REN_STD_FUNCTION
\* and the lambda are written side by side in the call, so that a shim
\* comes with one callable. "add" returns the sum of its arguments, "sub"
\* the first less the others.
FunOf(shim) == IF shim = "shimB" THEN "sub" ELSE "add"

\* A raw stack cell: a typed value of the runtime.
IntCell(n) == [type |-> "integer", val |-> n]

StringCell == [type |-> "string", val |-> 0]

\* The return slot before anything is written to it.
NoCell == [type |-> "none", val |-> 0]

\* No frame, no entry, no value.
NoFrame == [none |-> TRUE]

\* The stack of the identify call: shim(nullptr).
NullStack == [null |-> TRUE]

\* The stacks the runtime may hand to a function of signature sig: one cell
\* per parameter and the return slot, not yet written.
ArgumentCells(sig) ==
    IF sig = "IntInt"
    THEN { << IntCell(2), IntCell(3) >>,
           << IntCell(2), StringCell >>,
           << StringCell, IntCell(3) >> }
    ELSE { << IntCell(2) >>, << StringCell >> }

Stacks(sig) == { [args |-> a, ret |-> NoCell] : a \in ArgumentCells(sig) }

VARIABLES
    extensionTablesMutex,   \* the thread that owns the mutex, or NoThread
    shimIdToCapture,        \* capture slot: the id the next shim is to take
    shimBouncerToCapture,   \* capture slot: the bounceShim it is to take
    table,                  \* table[sig]: FunctionGenerator<sig>::table
    id,                     \* id[shim]: the shim's static id
    bouncer,                \* bouncer[shim]: the shim's static bouncer
    registered,             \* registered[shim]: the Function finishInit made
    pc,                     \* pc[t]: the statement thread t executes next
    ctor,                   \* ctor[t]: the constructor's arguments
    shimCall,               \* shimCall[t]: the shim t is in, and its stack
    bounce,                 \* bounce[t]: bounceShim's id, table and locals
    outcome,                \* outcome[t]: how t's last operation ended
    aborted,                \* the process has ended abnormally
    nRegistrations,         \* constructor calls started
    nInvocations,           \* runtime calls started
    identifyCalls           \* identifyCalls[shim]: identify branches completed

vars ==
    << extensionTablesMutex, shimIdToCapture, shimBouncerToCapture, table, id,
       bouncer, registered, pc, ctor, shimCall, bounce, outcome, aborted,
       nRegistrations, nInvocations, identifyCalls >>

slots == << shimIdToCapture, shimBouncerToCapture >>

statics == << id, bouncer, identifyCalls >>

counters == << nRegistrations, nInvocations >>

\* ------------------------------------------------------------------- Init

Init ==
    /\ extensionTablesMutex = NoThread
    /\ shimIdToCapture = Unset
    /\ shimBouncerToCapture = Nullptr
    /\ table = [sig \in Signatures |-> << >>]
    /\ id = [s \in StdShims |-> Unset]
    /\ bouncer = [s \in StdShims |-> Nullptr]
    /\ registered = [s \in Shims |-> NoFrame]
    /\ pc = [t \in Threads |-> "idle"]
    /\ ctor = [t \in Threads |-> NoFrame]
    /\ shimCall = [t \in Threads |-> NoFrame]
    /\ bounce = [t \in Threads |-> NoFrame]
    /\ outcome = [t \in Threads |-> "none"]
    /\ aborted = FALSE
    /\ nRegistrations = 0
    /\ nInvocations = 0
    /\ identifyCalls = [s \in StdShims |-> 0]

\* A thread can take a step: the process runs and the thread is at `at`.
At(t, at) == ~aborted /\ pc[t] = at

InCtor(t) == ctor[t] # NoFrame

\* -------------------------------------------------------- leaving a frame

\* An exception leaves the frames of thread t. Inside a constructor, the
\* std::lock_guard of line 198 unlocks the mutex as the constructor unwinds;
\* nothing else is undone. Outside, the error reaches the runtime.
Throw(t, what) ==
    /\ pc' = [pc EXCEPT ![t] = "idle"]
    /\ outcome' = [outcome EXCEPT ![t] = what]
    /\ ctor' = [ctor EXCEPT ![t] = NoFrame]
    /\ shimCall' = [shimCall EXCEPT ![t] = NoFrame]
    /\ bounce' = [bounce EXCEPT ![t] = NoFrame]
    /\ extensionTablesMutex' =
          IF InCtor(t) /\ extensionTablesMutex = t
          THEN NoThread ELSE extensionTablesMutex

\* The shim returns `status` to whoever called it: the constructor's line
\* 206, or the runtime.
ShimReturns(t, status) ==
    /\ bounce' = [bounce EXCEPT ![t] = NoFrame]
    /\ IF InCtor(t)
       THEN /\ pc' = [pc EXCEPT ![t] = "ctor_check"]
            /\ shimCall' = [shimCall EXCEPT ![t].status = status]
            /\ outcome' = outcome
       ELSE /\ pc' = [pc EXCEPT ![t] = "idle"]
            /\ shimCall' = [shimCall EXCEPT ![t] = NoFrame]
            /\ outcome' = [outcome EXCEPT ![t] = status]

\* ------------------------------------------- FunctionGenerator constructor

\* Register without the lock_guard: the constructor neither waits for the
\* mutex nor takes it.
RegisterUnlocked(t, sig, shim) ==
    /\ At(t, "idle")
    /\ nRegistrations < MaxRegistrations
    /\ nRegistrations' = nRegistrations + 1
    /\ ctor' = [ctor EXCEPT ![t] =
                  [sig |-> sig, shim |-> shim, engine |-> EngineOf(t),
                   fun |-> FunOf(shim)]]
    /\ pc' = [pc EXCEPT ![t] = "ctor_assert"]
    /\ outcome' = [outcome EXCEPT ![t] = "none"]
    /\ UNCHANGED << extensionTablesMutex, slots, table, statics, registered,
                    shimCall, bounce, aborted, nInvocations >>

\* A thread calls makeFunction, which constructs a FunctionGenerator<sig>
\* with the thread's engine, a shim and its callable. The constructor starts
\* with std::lock_guard<std::mutex> lock {internal::extensionTablesMutex},
\* which waits until the mutex is free.
Register(t, sig, shim) ==
    /\ At(t, "idle")
    /\ nRegistrations < MaxRegistrations
    /\ extensionTablesMutex = NoThread
    /\ extensionTablesMutex' = t
    /\ nRegistrations' = nRegistrations + 1
    /\ ctor' = [ctor EXCEPT ![t] =
                  [sig |-> sig, shim |-> shim, engine |-> EngineOf(t),
                   fun |-> FunOf(shim)]]
    /\ pc' = [pc EXCEPT ![t] = "ctor_assert"]
    /\ outcome' = [outcome EXCEPT ![t] = "none"]
    /\ UNCHANGED << slots, table, statics, registered, shimCall, bounce,
                    aborted, nInvocations >>

SlotsEmpty == shimIdToCapture = Unset /\ shimBouncerToCapture = Nullptr

\* assert(shimIdToCapture == -1); assert(not shimBouncerToCapture);
\* with the slots empty.
CtorAssert(t) ==
    /\ At(t, "ctor_assert")
    /\ SlotsEmpty
    /\ pc' = [pc EXCEPT ![t] = "ctor_capture"]
    /\ UNCHANGED << extensionTablesMutex, slots, table, statics, registered,
                    ctor, shimCall, bounce, outcome, aborted, counters >>

\* The asserts with a slot not empty, in a build without NDEBUG: abort().
CtorAssertFails(t) ==
    /\ At(t, "ctor_assert")
    /\ ~SlotsEmpty
    /\ aborted' = TRUE
    /\ UNCHANGED << extensionTablesMutex, slots, table, statics, registered,
                    pc, ctor, shimCall, bounce, outcome, counters >>

\* The asserts with a slot not empty, in a build with NDEBUG: no check.
CtorAssertCompiledOut(t) ==
    /\ At(t, "ctor_assert")
    /\ ~SlotsEmpty
    /\ pc' = [pc EXCEPT ![t] = "ctor_capture"]
    /\ UNCHANGED << extensionTablesMutex, slots, table, statics, registered,
                    ctor, shimCall, bounce, outcome, aborted, counters >>

\* CtorCapture with a lock that covers only the check and the writes of the
\* slots: the mutex is unlocked before the shim is called.
CtorCaptureUnlocks(t) ==
    /\ At(t, "ctor_capture")
    /\ shimIdToCapture' = Len(table[ctor[t].sig])
    /\ shimBouncerToCapture' = ctor[t].sig
    /\ extensionTablesMutex' = NoThread
    /\ pc' = [pc EXCEPT ![t] = "ctor_shim"]
    /\ UNCHANGED << table, statics, registered, ctor, shimCall, bounce,
                    outcome, aborted, counters >>

\* CtorCapture that hands out the id one past the end: table.size() + 1.
CtorCaptureOffByOne(t) ==
    /\ At(t, "ctor_capture")
    /\ shimIdToCapture' = Len(table[ctor[t].sig]) + 1
    /\ shimBouncerToCapture' = ctor[t].sig
    /\ pc' = [pc EXCEPT ![t] = "ctor_shim"]
    /\ UNCHANGED << extensionTablesMutex, table, statics, registered, ctor,
                    shimCall, bounce, outcome, aborted, counters >>

\* CtorCapture that writes the bouncer slot only when it is null, so that
\* a bouncer left in the slot by another signature's registration stays.
CtorCaptureKeepsBouncer(t) ==
    /\ At(t, "ctor_capture")
    /\ shimIdToCapture' = Len(table[ctor[t].sig])
    /\ shimBouncerToCapture' =
          IF shimBouncerToCapture = Nullptr
          THEN ctor[t].sig ELSE shimBouncerToCapture
    /\ pc' = [pc EXCEPT ![t] = "ctor_shim"]
    /\ UNCHANGED << extensionTablesMutex, table, statics, registered, ctor,
                    shimCall, bounce, outcome, aborted, counters >>

\* shimIdToCapture = table.size(); shimBouncerToCapture = &bounceShim;
CtorCapture(t) ==
    /\ At(t, "ctor_capture")
    /\ shimIdToCapture' = Len(table[ctor[t].sig])
    /\ shimBouncerToCapture' = ctor[t].sig
    /\ pc' = [pc EXCEPT ![t] = "ctor_shim"]
    /\ UNCHANGED << extensionTablesMutex, table, statics, registered, ctor,
                    shimCall, bounce, outcome, aborted, counters >>

\* CtorShim with finishInit moved before the call of the shim: the runtime
\* holds the function while the shim has yet to identify itself.
CtorShimPublishes(t) ==
    /\ At(t, "ctor_shim")
    /\ registered' = [registered EXCEPT ![ctor[t].shim] =
                        [sig |-> ctor[t].sig, engine |-> ctor[t].engine,
                         fun |-> ctor[t].fun]]
    /\ shimCall' = [shimCall EXCEPT ![t] =
                      [shim |-> ctor[t].shim, stack |-> NullStack,
                       status |-> "none"]]
    /\ pc' = [pc EXCEPT ![t] =
                IF ctor[t].shim \in StdShims THEN "shim_test" ELSE "shim_foreign"]
    /\ UNCHANGED << extensionTablesMutex, slots, table, statics, ctor, bounce,
                    outcome, aborted, counters >>

\* shim(nullptr): the call of line 206.
CtorShim(t) ==
    /\ At(t, "ctor_shim")
    /\ shimCall' = [shimCall EXCEPT ![t] =
                      [shim |-> ctor[t].shim, stack |-> NullStack,
                       status |-> "none"]]
    /\ pc' = [pc EXCEPT ![t] =
                IF ctor[t].shim \in StdShims THEN "shim_test" ELSE "shim_foreign"]
    /\ UNCHANGED << extensionTablesMutex, slots, table, statics, registered,
                    ctor, bounce, outcome, aborted, counters >>

\* CtorCheck without the check: whatever the shim returned, go on.
CtorCheckIgnored(t) ==
    /\ At(t, "ctor_check")
    /\ pc' = [pc EXCEPT ![t] = "ctor_clear"]
    /\ shimCall' = [shimCall EXCEPT ![t] = NoFrame]
    /\ UNCHANGED << extensionTablesMutex, slots, table, statics, registered,
                    ctor, bounce, outcome, aborted, counters >>

\* if (shim(nullptr) != REN_SHIM_INITIALIZED) throw std::runtime_error(...);
CtorCheck(t) ==
    /\ At(t, "ctor_check")
    /\ IF shimCall[t].status # REN_SHIM_INITIALIZED
       THEN Throw(t, "runtime_error")
       ELSE /\ pc' = [pc EXCEPT ![t] = "ctor_clear"]
            /\ shimCall' = [shimCall EXCEPT ![t] = NoFrame]
            /\ UNCHANGED << extensionTablesMutex, ctor, bounce, outcome >>
    /\ UNCHANGED << slots, table, statics, registered, aborted, counters >>

\* shimIdToCapture = -1; shimBouncerToCapture = nullptr;
CtorClear(t) ==
    /\ At(t, "ctor_clear")
    /\ shimIdToCapture' = Unset
    /\ shimBouncerToCapture' = Nullptr
    /\ pc' = [pc EXCEPT ![t] = "ctor_push"]
    /\ UNCHANGED << extensionTablesMutex, table, statics, registered, ctor,
                    shimCall, bounce, outcome, aborted, counters >>

\* CtorPush that inserts at the front of the vector.
CtorPushFront(t) ==
    /\ At(t, "ctor_push")
    /\ table' = [table EXCEPT ![ctor[t].sig] =
                   << [engine |-> ctor[t].engine, fun |-> ctor[t].fun] >> \o @]
    /\ pc' = [pc EXCEPT ![t] = "ctor_finish"]
    /\ UNCHANGED << extensionTablesMutex, slots, statics, registered, ctor,
                    shimCall, bounce, outcome, aborted, counters >>

\* table.push_back({engine, fun});
CtorPush(t) ==
    /\ At(t, "ctor_push")
    /\ table' = [table EXCEPT ![ctor[t].sig] =
                   Append(@, [engine |-> ctor[t].engine, fun |-> ctor[t].fun])]
    /\ pc' = [pc EXCEPT ![t] = "ctor_finish"]
    /\ UNCHANGED << extensionTablesMutex, slots, statics, registered, ctor,
                    shimCall, bounce, outcome, aborted, counters >>

\* Function::finishInit(engine, spec, shim); and the end of the constructor,
\* where the lock_guard unlocks the mutex. From here on the runtime holds a
\* function value that calls the shim.
CtorFinish(t) ==
    /\ At(t, "ctor_finish")
    /\ registered' = [registered EXCEPT ![ctor[t].shim] =
                        [sig |-> ctor[t].sig, engine |-> ctor[t].engine,
                         fun |-> ctor[t].fun]]
    /\ extensionTablesMutex' = NoThread
    /\ ctor' = [ctor EXCEPT ![t] = NoFrame]
    /\ pc' = [pc EXCEPT ![t] = "idle"]
    /\ outcome' = [outcome EXCEPT ![t] = "registered"]
    /\ UNCHANGED << slots, table, statics, shimCall, bounce, aborted,
                    counters >>

\* ------------------------------------------------- the runtime calls a shim

\* The runtime calls a function value that finishInit made: it calls the
\* function's shim with the stack of the call.
Invoke(t, s, stack) ==
    /\ At(t, "idle")
    /\ nInvocations < MaxInvocations
    /\ registered[s] # NoFrame
    /\ stack \in Stacks(registered[s].sig)
    /\ nInvocations' = nInvocations + 1
    /\ shimCall' = [shimCall EXCEPT ![t] =
                      [shim |-> s, stack |-> stack, status |-> "none"]]
    /\ pc' = [pc EXCEPT ![t] =
                IF s \in StdShims THEN "shim_test" ELSE "shim_foreign"]
    /\ outcome' = [outcome EXCEPT ![t] = "none"]
    /\ UNCHANGED << extensionTablesMutex, slots, table, statics, registered,
                    ctor, bounce, aborted, nRegistrations >>

\* ------------------------------------------------------- REN_STD_FUNCTION

\* ShimTest without the test: every call takes the identify branch.
ShimTestAlwaysIdentifies(t) ==
    /\ At(t, "shim_test")
    /\ pc' = [pc EXCEPT ![t] = "shim_id"]
    /\ UNCHANGED << extensionTablesMutex, slots, table, statics, registered,
                    ctor, shimCall, bounce, outcome, aborted, counters >>

\* if (id != -1)
ShimTest(t) ==
    /\ At(t, "shim_test")
    /\ pc' = [pc EXCEPT ![t] =
                IF id[shimCall[t].shim] # Unset
                THEN "shim_forward" ELSE "shim_id"]
    /\ UNCHANGED << extensionTablesMutex, slots, table, statics, registered,
                    ctor, shimCall, bounce, outcome, aborted, counters >>

\* return bouncer(id, stack); the call. A call through a null bouncer ends
\* the process.
ShimForward(t) ==
    /\ At(t, "shim_forward")
    /\ IF bouncer[shimCall[t].shim] = Nullptr
       THEN /\ aborted' = TRUE
            /\ UNCHANGED << pc, bounce >>
       ELSE /\ bounce' = [bounce EXCEPT ![t] =
                            [sig |-> bouncer[shimCall[t].shim],
                             id |-> id[shimCall[t].shim],
                             entry |-> NoFrame,
                             values |->
                                [i \in 1..Arity(bouncer[shimCall[t].shim])
                                   |-> NoFrame],
                             result |-> NoCell]]
            /\ pc' = [pc EXCEPT ![t] = "bounce_lock"]
            /\ aborted' = aborted
    /\ UNCHANGED << extensionTablesMutex, slots, table, statics, registered,
                    ctor, shimCall, outcome, counters >>

\* id = ren::internal::shimIdToCapture;
ShimCaptureId(t) ==
    /\ At(t, "shim_id")
    /\ id' = [id EXCEPT ![shimCall[t].shim] = shimIdToCapture]
    /\ pc' = [pc EXCEPT ![t] = "shim_bouncer"]
    /\ UNCHANGED << extensionTablesMutex, slots, table, bouncer, identifyCalls,
                    registered, ctor, shimCall, bounce, outcome, aborted,
                    counters >>

\* bouncer = ren::internal::shimBouncerToCapture;
ShimCaptureBouncer(t) ==
    /\ At(t, "shim_bouncer")
    /\ bouncer' = [bouncer EXCEPT ![shimCall[t].shim] = shimBouncerToCapture]
    /\ pc' = [pc EXCEPT ![t] = "shim_initialized"]
    /\ UNCHANGED << extensionTablesMutex, slots, table, id, identifyCalls,
                    registered, ctor, shimCall, bounce, outcome, aborted,
                    counters >>

\* return REN_SHIM_INITIALIZED;
ShimInitialized(t) ==
    /\ At(t, "shim_initialized")
    /\ identifyCalls' = [identifyCalls EXCEPT ![shimCall[t].shim] = @ + 1]
    /\ ShimReturns(t, REN_SHIM_INITIALIZED)
    /\ UNCHANGED << extensionTablesMutex, slots, table, id, bouncer,
                    registered, ctor, aborted, counters >>

\* A shim that is no REN_STD_FUNCTION: it returns REN_SUCCESS.
ShimForeign(t) ==
    /\ At(t, "shim_foreign")
    /\ ShimReturns(t, REN_SUCCESS)
    /\ UNCHANGED << extensionTablesMutex, slots, table, statics, registered,
                    ctor, aborted, counters >>

\* -------------------------------------------------------------- bounceShim

\* extensionTablesMutex.lock(); by a thread that does not own the mutex.
BounceLock(t) ==
    /\ At(t, "bounce_lock")
    /\ extensionTablesMutex = NoThread
    /\ extensionTablesMutex' = t
    /\ pc' = [pc EXCEPT ![t] = "bounce_copy"]
    /\ UNCHANGED << slots, table, statics, registered, ctor, shimCall, bounce,
                    outcome, aborted, counters >>

\* extensionTablesMutex.lock(); by the thread that owns the mutex, which is
\* undefined for a std::mutex. One outcome: the thread waits for itself.
BounceRelockDeadlocks(t) ==
    /\ At(t, "bounce_lock")
    /\ extensionTablesMutex = t
    /\ pc' = [pc EXCEPT ![t] = "deadlocked"]
    /\ UNCHANGED << extensionTablesMutex, slots, table, statics, registered,
                    ctor, shimCall, bounce, outcome, aborted, counters >>

\* The other outcome: lock() throws std::system_error
\* (resource_deadlock_would_occur), which leaves bounceShim and the shim.
BounceRelockThrows(t) ==
    /\ At(t, "bounce_lock")
    /\ extensionTablesMutex = t
    /\ Throw(t, "system_error")
    /\ UNCHANGED << slots, table, statics, registered, aborted, counters >>

\* BounceCopy that copies table.back() whatever the id.
BounceCopyLast(t) ==
    /\ At(t, "bounce_copy")
    /\ Len(table[bounce[t].sig]) > 0
    /\ bounce' = [bounce EXCEPT ![t].entry =
                    table[bounce[t].sig][Len(table[bounce[t].sig])]]
    /\ pc' = [pc EXCEPT ![t] = "bounce_unlock"]
    /\ UNCHANGED << extensionTablesMutex, slots, table, statics, registered,
                    ctor, shimCall, outcome, aborted, counters >>

\* BounceCopy that moves the entry out of the table (std::move(table[id])):
\* the table is left with an empty callable.
BounceCopyMoves(t) ==
    /\ At(t, "bounce_copy")
    /\ bounce[t].id >= 0 /\ bounce[t].id < Len(table[bounce[t].sig])
    /\ bounce' = [bounce EXCEPT ![t].entry =
                    table[bounce[t].sig][bounce[t].id + 1]]
    /\ table' = [table EXCEPT ![bounce[t].sig][bounce[t].id + 1].fun = "empty"]
    /\ pc' = [pc EXCEPT ![t] = "bounce_unlock"]
    /\ UNCHANGED << extensionTablesMutex, slots, statics, registered, ctor,
                    shimCall, outcome, aborted, counters >>

\* TableEntry entry = table[id]; An id past the end of the vector reads
\* outside it, which ends the process.
BounceCopy(t) ==
    /\ At(t, "bounce_copy")
    /\ IF bounce[t].id >= 0 /\ bounce[t].id < Len(table[bounce[t].sig])
       THEN /\ bounce' = [bounce EXCEPT ![t].entry =
                            table[bounce[t].sig][bounce[t].id + 1]]
            /\ pc' = [pc EXCEPT ![t] = "bounce_unlock"]
            /\ aborted' = aborted
       ELSE /\ aborted' = TRUE
            /\ UNCHANGED << pc, bounce >>
    /\ UNCHANGED << extensionTablesMutex, slots, table, statics, registered,
                    ctor, shimCall, outcome, counters >>

\* BounceUnlock that keeps the mutex: the lock is held while the callable
\* runs.
BounceUnlockKept(t) ==
    /\ At(t, "bounce_unlock")
    /\ pc' = [pc EXCEPT ![t] = "bounce_apply"]
    /\ UNCHANGED << extensionTablesMutex, slots, table, statics, registered,
                    ctor, shimCall, bounce, outcome, aborted, counters >>

\* extensionTablesMutex.unlock();
BounceUnlock(t) ==
    /\ At(t, "bounce_unlock")
    /\ extensionTablesMutex' = NoThread
    /\ pc' = [pc EXCEPT ![t] = "bounce_apply"]
    /\ UNCHANGED << slots, table, statics, registered, ctor, shimCall, bounce,
                    outcome, aborted, counters >>

\* *REN_STACK_ARGUMENT(stack, index): the cell of parameter index (from 0).
REN_STACK_ARGUMENT(stack, index) == stack.args[index + 1]

\* Value::construct<T>(engine, cell) for T = Integer: the value of the cell
\* in the engine, or no value when the cell is no integer.
Construct(engine, cell) ==
    IF cell.type = "integer"
    THEN [engine |-> engine, val |-> cell.val]
    ELSE NoFrame

\* The parameters whose values the call expression of applyFunImpl may
\* construct next, when `values` are constructed: the arguments of a call
\* are evaluated in an order the compiler chooses.
NextIndices(sig, values) == { i \in Indices(sig) : values[i + 1] = NoFrame }

\* ApplyConstruct that catches the failed construction and goes on with a
\* zero in the engine.
ApplyConstructSwallows(t, index) ==
    /\ At(t, "bounce_apply")
    /\ index \in NextIndices(bounce[t].sig, bounce[t].values)
    /\ shimCall[t].stack # NullStack
    /\ LET value == Construct(bounce[t].entry.engine,
                              REN_STACK_ARGUMENT(shimCall[t].stack, index))
       IN  bounce' = [bounce EXCEPT ![t].values[index + 1] =
                        IF value = NoFrame
                        THEN [engine |-> bounce[t].entry.engine, val |-> 0]
                        ELSE value]
    /\ UNCHANGED << extensionTablesMutex, pc, ctor, shimCall, outcome, aborted,
                    slots, table, statics, registered, counters >>

\* ApplyConstruct that counts the stack's cells from the other end: the
\* value of parameter index comes from the cell of sizeof...(Ts) - 1 - index.
ApplyConstructReversed(t, index) ==
    /\ At(t, "bounce_apply")
    /\ index \in NextIndices(bounce[t].sig, bounce[t].values)
    /\ shimCall[t].stack # NullStack
    /\ LET value == Construct(bounce[t].entry.engine,
                              REN_STACK_ARGUMENT(shimCall[t].stack,
                                  Arity(bounce[t].sig) - 1 - index))
       IN  IF value = NoFrame
           THEN /\ Throw(t, "conversion_error")
                /\ aborted' = aborted
           ELSE /\ bounce' = [bounce EXCEPT ![t].values[index + 1] = value]
                /\ UNCHANGED << extensionTablesMutex, pc, ctor, shimCall,
                                outcome, aborted >>
    /\ UNCHANGED << slots, table, statics, registered, counters >>

\* applyFunImpl: one argument of fun(Value::construct<...>(engine,
\* *REN_STACK_ARGUMENT(stack, Indices))...) is constructed. A cell of the
\* wrong type throws; a null stack is dereferenced, which ends the process.
ApplyConstruct(t, index) ==
    /\ At(t, "bounce_apply")
    /\ index \in NextIndices(bounce[t].sig, bounce[t].values)
    /\ IF shimCall[t].stack = NullStack
       THEN /\ aborted' = TRUE
            /\ UNCHANGED << extensionTablesMutex, pc, ctor, shimCall, bounce,
                            outcome >>
       ELSE LET value == Construct(bounce[t].entry.engine,
                                   REN_STACK_ARGUMENT(shimCall[t].stack, index))
            IN  IF value = NoFrame
                THEN /\ Throw(t, "conversion_error")
                     /\ aborted' = aborted
                ELSE /\ bounce' = [bounce EXCEPT
                                     ![t].values[index + 1] = value]
                     /\ UNCHANGED << extensionTablesMutex, pc, ctor, shimCall,
                                     outcome, aborted >>
    /\ UNCHANGED << slots, table, statics, registered, counters >>

RECURSIVE SumFrom(_, _)
SumFrom(values, i) ==
    IF i > Len(values) THEN 0 ELSE values[i].val + SumFrom(values, i + 1)

\* What a callable returns.
Call(fun, values) ==
    IF fun = "add"
    THEN SumFrom(values, 1)
    ELSE values[1].val - SumFrom(values, 2)

\* applyFunImpl: fun(...) is called with the constructed values, and
\* `result` binds what it returns.
ApplyCall(t) ==
    /\ At(t, "bounce_apply")
    /\ NextIndices(bounce[t].sig, bounce[t].values) = {}
    /\ bounce' = [bounce EXCEPT ![t].result =
                    IntCell(Call(bounce[t].entry.fun, bounce[t].values))]
    /\ pc' = [pc EXCEPT ![t] = "bounce_write"]
    /\ UNCHANGED << extensionTablesMutex, slots, table, statics, registered,
                    ctor, shimCall, outcome, aborted, counters >>

\* *REN_STACK_RETURN(stack) = result.cell;
BounceWrite(t) ==
    /\ At(t, "bounce_write")
    /\ shimCall' = [shimCall EXCEPT ![t].stack.ret = bounce[t].result]
    /\ pc' = [pc EXCEPT ![t] = "bounce_return"]
    /\ UNCHANGED << extensionTablesMutex, slots, table, statics, registered,
                    ctor, bounce, outcome, aborted, counters >>

\* return REN_SUCCESS; and the shim returns what bounceShim returned.
BounceReturn(t) ==
    /\ At(t, "bounce_return")
    /\ ShimReturns(t, REN_SUCCESS)
    /\ UNCHANGED << extensionTablesMutex, slots, table, statics, registered,
                    ctor, aborted, counters >>

\* ------------------------------------------------------ the specification

Next ==
    \/ \E t \in Threads, sig \in Signatures, shim \in Shims :
          Register(t, sig, shim)
    \/ \E t \in Threads : CtorAssert(t)
    \/ \E t \in Threads : CtorAssertFails(t)
    \/ \E t \in Threads : CtorAssertCompiledOut(t)
    \/ \E t \in Threads : CtorCapture(t)
    \/ \E t \in Threads : CtorShim(t)
    \/ \E t \in Threads : CtorCheck(t)
    \/ \E t \in Threads : CtorClear(t)
    \/ \E t \in Threads : CtorPush(t)
    \/ \E t \in Threads : CtorFinish(t)
    \/ \E t \in Threads, s \in Shims :
          \E stack \in UNION { Stacks(sig) : sig \in Signatures } :
             Invoke(t, s, stack)
    \/ \E t \in Threads : ShimTest(t)
    \/ \E t \in Threads : ShimForward(t)
    \/ \E t \in Threads : ShimCaptureId(t)
    \/ \E t \in Threads : ShimCaptureBouncer(t)
    \/ \E t \in Threads : ShimInitialized(t)
    \/ \E t \in Threads : ShimForeign(t)
    \/ \E t \in Threads : BounceLock(t)
    \/ \E t \in Threads : BounceRelockDeadlocks(t)
    \/ \E t \in Threads : BounceRelockThrows(t)
    \/ \E t \in Threads : BounceCopy(t)
    \/ \E t \in Threads : BounceUnlock(t)
    \/ \E t \in Threads :
          \E index \in UNION { Indices(sig) : sig \in Signatures } :
             ApplyConstruct(t, index)
    \/ \E t \in Threads : ApplyCall(t)
    \/ \E t \in Threads : BounceWrite(t)
    \/ \E t \in Threads : BounceReturn(t)

Spec == Init /\ [][Next]_vars

\* ------------------------------------------------------------- the claims

\* The std shims whose registration under sig has ended with a function.
RegisteredUnder(sig) ==
    { s \in StdShims : registered[s] # NoFrame /\ registered[s].sig = sig }

\* Thread t is anywhere inside a constructor; InShim: inside a shim it was
\* called with by the runtime.
Registering == { t \in Threads : InCtor(t) }

Invoking == { t \in Threads : ~InCtor(t) /\ shimCall[t] # NoFrame }

\* Thread t is in the identify branch of a shim (lines 268-270).
Identifying(t) == pc[t] \in {"shim_id", "shim_bouncer", "shim_initialized"}

\* Thread t has copied its table entry (line 163 is behind it).
HasEntry(t) ==
    pc[t] \in {"bounce_unlock", "bounce_apply", "bounce_write", "bounce_return"}

\* C1: once every registration that was started has ended, the table of
\* each signature holds exactly as many entries as registrations of that
\* signature ended with a function, and the shims of these registrations
\* hold the ids 0..K-1, each once: no entry is dropped, no id issued twice.
C1_DistinctIds ==
    Registering = {} =>
        \A sig \in Signatures :
            /\ Len(table[sig]) = Cardinality(RegisteredUnder(sig))
            /\ { id[s] : s \in RegisteredUnder(sig) } = 0 .. (Len(table[sig]) - 1)
            /\ \A s1, s2 \in RegisteredUnder(sig) : id[s1] = id[s2] => s1 = s2

\* Two threads have each registered a callable of the same signature, and
\* no registration is under way.
C1_Witness ==
    /\ Registering = {}
    /\ \E sig \in Signatures :
          /\ Len(table[sig]) = 2
          /\ table[sig][1].engine # table[sig][2].engine

\* C2: a runtime call of a shim that was registered with callable F applies
\* F (and F's engine): the entry bounceShim copies for the call is the one
\* of the shim's own registration, whatever other threads register or call.
C2_OwnCallable ==
    \A t \in Invoking :
        HasEntry(t) =>
            bounce[t].entry =
                [engine |-> registered[shimCall[t].shim].engine,
                 fun |-> registered[shimCall[t].shim].fun]

\* Two threads are each about to apply the callable of a different shim of
\* the same signature.
C2_Witness ==
    \E t1, t2 \in Invoking :
        /\ pc[t1] = "bounce_apply" /\ pc[t2] = "bounce_apply"
        /\ shimCall[t1].shim # shimCall[t2].shim
        /\ bounce[t1].sig = bounce[t2].sig
        /\ bounce[t1].entry.fun # bounce[t2].entry.fun

\* C3: the dispatch table is append-only. No step shortens a table or
\* changes an entry it holds, and the entry at the id of every registered
\* shim is the (engine, callable) pair of that shim's registration.
C3_AppendOnly ==
    /\ [][\A sig \in Signatures :
            /\ Len(table'[sig]) >= Len(table[sig])
            /\ \A i \in 1..Len(table[sig]) : table'[sig][i] = table[sig][i]]_vars
    /\ [](\A sig \in Signatures : \A s \in RegisteredUnder(sig) :
            /\ id[s] >= 0 /\ id[s] < Len(table[sig])
            /\ table[sig][id[s] + 1] =
                  [engine |-> registered[s].engine, fun |-> registered[s].fun])

\* A table holds two entries, the first at the id of a registered shim,
\* and a call of a function has ended.
C3_Witness ==
    \E sig \in Signatures : \E s \in RegisteredUnder(sig) :
        /\ Len(table[sig]) = 2
        /\ id[s] = 0
        /\ \E t \in Threads : outcome[t] = REN_SUCCESS

\* C4 (as claimed): the capture slots are empty whenever no registration is
\* under way, and at the asserts that start every registration.
C4_SlotsEmptyBetweenRegistrations ==
    /\ Registering = {} => SlotsEmpty
    /\ \A t \in Threads : pc[t] = "ctor_assert" => SlotsEmpty

\* C5: a registration whose identify call returns anything but
\* REN_SHIM_INITIALIZED ends with the constructor's runtime_error, and it
\* appends nothing: up to the check the table has the size it had when the
\* slots were written, and the step that throws leaves every table and
\* every registered function as they are.
C5_FailedRegistrationAppendsNothing ==
    /\ [](\A t \in Threads :
            pc[t] = "ctor_check" =>
                Len(table[ctor[t].sig]) = shimIdToCapture)
    /\ [][\A t \in Threads :
            (/\ pc[t] = "ctor_check"
             /\ shimCall[t].status # REN_SHIM_INITIALIZED
             /\ pc'[t] # "ctor_check")
            => /\ table' = table
               /\ registered' = registered
               /\ pc'[t] = "idle"
               /\ ctor'[t] = NoFrame
               /\ outcome'[t] = "runtime_error"]_vars

\* A registration has ended with the runtime_error after another one had
\* appended an entry, and the tables hold that entry only.
C5_Witness ==
    \E t \in Threads :
        /\ outcome[t] = "runtime_error"
        /\ nRegistrations = 2
        /\ Len(table["IntInt"]) + Len(table["Int"]) = 1

\* C6: a registration owns the mutex from its asserts through its append,
\* so no two registrations are inside that window together; the slots hold
\* what this registration wrote from the write to the check; and a shim
\* that has taken the identify branch holds exactly that id and bouncer.
C6_CaptureOwnSlots ==
    /\ \A t \in Registering : extensionTablesMutex = t
    /\ \A t1, t2 \in Registering : t1 = t2
    /\ \A t \in Registering :
          pc[t] \in {"ctor_shim", "shim_test", "shim_id", "shim_bouncer",
                     "shim_initialized", "shim_foreign", "ctor_check"} =>
              /\ shimIdToCapture = Len(table[ctor[t].sig])
              /\ shimBouncerToCapture = ctor[t].sig
    /\ \A t \in Registering :
          pc[t] \in {"shim_initialized", "ctor_clear", "ctor_push"} =>
              /\ id[ctor[t].shim] = Len(table[ctor[t].sig])
              /\ bouncer[ctor[t].shim] = ctor[t].sig

\* A second registration of a signature, by another thread than the first,
\* has captured id 1 and is about to append.
C6_Witness ==
    \E t \in Registering :
        /\ pc[t] = "ctor_push"
        /\ Len(table[ctor[t].sig]) = 1
        /\ table[ctor[t].sig][1].engine # EngineOf(t)
        /\ id[ctor[t].shim] = 1

\* C7: a shim's identity is set once. A shim completes the identify branch
\* at most once; once it has, no thread is in its identify branch, and no
\* step changes its id or its bouncer.
C7_IdentifiedOnce ==
    /\ [](\A s \in StdShims :
            /\ identifyCalls[s] <= 1
            /\ identifyCalls[s] = 1 =>
                  \A t \in Threads :
                     ~(shimCall[t] # NoFrame /\ shimCall[t].shim = s
                       /\ Identifying(t)))
    /\ [][\A s \in StdShims :
            identifyCalls[s] = 1 =>
                /\ id'[s] = id[s]
                /\ bouncer'[s] = bouncer[s]
                /\ identifyCalls'[s] = 1]_vars

\* An identified shim is in its forward phase in one thread while another
\* thread registers another shim, which is in its identify branch.
C7_Witness ==
    \E t1 \in Invoking, t2 \in Registering :
        /\ pc[t1] = "shim_forward"
        /\ identifyCalls[shimCall[t1].shim] = 1
        /\ Identifying(t2)

\* C8: no call sees a partly captured identity. A thread that took the
\* forward branch finds the bouncer set, and a call of a shim by the
\* runtime finds the shim's id and bouncer both set.
C8_NoPartialIdentity ==
    /\ \A t \in Threads :
          pc[t] = "shim_forward" =>
              /\ id[shimCall[t].shim] # Unset
              /\ bouncer[shimCall[t].shim] # Nullptr
    /\ \A t \in Invoking :
          shimCall[t].shim \in StdShims =>
              /\ id[shimCall[t].shim] # Unset
              /\ bouncer[shimCall[t].shim] # Nullptr

\* A thread forwards through one shim while another shim, in another
\* thread's registration, has its id set and its bouncer still null.
C8_Witness ==
    \E t1 \in Invoking, t2 \in Registering :
        /\ pc[t1] = "shim_forward"
        /\ pc[t2] = "shim_bouncer"
        /\ id[shimCall[t2].shim] # Unset
        /\ bouncer[shimCall[t2].shim] = Nullptr

\* C9: a thread that is past the copy of its entry (constructing the
\* arguments, running the callable, writing the result) does not own the
\* mutex.
C9_CallableRunsUnlocked ==
    \A t \in Threads :
        pc[t] \in {"bounce_apply", "bounce_write", "bounce_return"} =>
            extensionTablesMutex # t

\* One thread is about to run a callable while the other thread owns the
\* mutex, in a registration.
C9_Witness ==
    \E t1 \in Invoking, t2 \in Registering :
        /\ pc[t1] = "bounce_apply"
        /\ NextIndices(bounce[t1].sig, bounce[t1].values) = {}
        /\ extensionTablesMutex = t2

\* C10 (as claimed): the arguments are constructed from left to right: a
\* parameter's value is constructed only when the values of all parameters
\* before it are.
C10_LeftToRight ==
    \A t \in Threads :
        bounce[t] # NoFrame =>
            \A i, j \in Indices(bounce[t].sig) :
                (i < j /\ bounce[t].values[j + 1] # NoFrame) =>
                    bounce[t].values[i + 1] # NoFrame

\* C11: an invocation of a trampoline whose stack holds a cell that cannot
\* be constructed as the parameter's type never runs the callable (no result
\* is bound, bounceShim never gets behind applyFun), never writes the return
\* slot, and ends with the conversion error at its caller, never with
\* REN_SUCCESS.
C11_FailedConstructionRunsNothing ==
    /\ [](\A t \in Invoking :
            ( /\ shimCall[t].shim \in StdShims
              /\ \E i \in 1..Len(shimCall[t].stack.args) :
                    shimCall[t].stack.args[i].type # "integer" )
            => /\ pc[t] \notin {"bounce_write", "bounce_return"}
               /\ shimCall[t].stack.ret = NoCell
               /\ bounce[t] # NoFrame => bounce[t].result = NoCell)
    /\ [][\A t \in Invoking :
            ( /\ shimCall[t].shim \in StdShims
              /\ \E i \in 1..Len(shimCall[t].stack.args) :
                    shimCall[t].stack.args[i].type # "integer"
              /\ pc'[t] = "idle" )
            => /\ pc[t] = "bounce_apply"
               /\ outcome'[t] = "conversion_error"]_vars

\* An invocation has ended at its caller with the conversion error.
C11_Witness ==
    \E t \in Threads :
        /\ outcome[t] = "conversion_error"
        /\ pc[t] = "idle"
        /\ nInvocations > 0

\* C12: an invocation of a trampoline that ends with REN_SUCCESS has
\* written to the return slot what the callable of its table entry returns
\* for the values of the stack's cells 0..k-1, in this order and in the
\* entry's engine: add leaves 5 for (2, 3), sub leaves -1.
C12_ReturnSlotHoldsResult ==
    /\ [](\A t \in Invoking :
            pc[t] \in {"bounce_write", "bounce_return"}
            => LET s == shimCall[t].shim
                   e == table[bouncer[s]][id[s] + 1]
                   a == shimCall[t].stack.args
                   rest == IF Len(a) = 2 THEN a[2].val ELSE 0
                   expected == IF e.fun = "add"
                               THEN a[1].val + rest
                               ELSE a[1].val - rest
               IN  /\ Len(a) = Arity(registered[s].sig)
                   /\ \A i \in 1..Len(a) :
                         bounce[t].values[i] =
                             [engine |-> e.engine, val |-> a[i].val]
                   /\ bounce[t].result = IntCell(expected)
                   /\ pc[t] = "bounce_return"
                         => shimCall[t].stack.ret = IntCell(expected)
                   /\ ( /\ e.fun = "add"
                        /\ a = << IntCell(2), IntCell(3) >>
                        /\ pc[t] = "bounce_return" )
                         => shimCall[t].stack.ret = IntCell(5))
    /\ [][\A t \in Invoking :
            /\ ( shimCall[t].shim \in StdShims /\ outcome'[t] = REN_SUCCESS )
                  => pc[t] = "bounce_return"
            /\ ( pc[t] = "bounce_return" /\ pc'[t] # pc[t] )
                  => outcome'[t] = REN_SUCCESS]_vars

\* sub was invoked with (2, 3) and has -1 in the return slot.
C12_Witness ==
    \E t \in Invoking :
        /\ pc[t] = "bounce_return"
        /\ registered[shimCall[t].shim].fun = "sub"
        /\ shimCall[t].stack.args = << IntCell(2), IntCell(3) >>
        /\ shimCall[t].stack.ret = IntCell(0 - 1)

\* C13: the id a registration's shim captures is the index at which the
\* registration then appends its entry; while the mutex is free the id of
\* every identified shim is an index of the table of its bouncer's
\* signature; the lookup of bounceShim is never out of range.
C13_CapturedIdIsIndex ==
    /\ [](/\ extensionTablesMutex = NoThread
             => \A s \in StdShims :
                   id[s] # Unset
                   => /\ bouncer[s] # Nullptr
                      /\ id[s] >= 0
                      /\ id[s] < Len(table[bouncer[s]])
          /\ \A t \in Threads :
                pc[t] = "bounce_copy"
                => /\ bounce[t].id >= 0
                   /\ bounce[t].id < Len(table[bounce[t].sig]))
    /\ [][\A t \in Threads :
            ( pc[t] = "ctor_push" /\ pc'[t] # pc[t]
              /\ ctor[t].shim \in StdShims )
            => /\ id[ctor[t].shim] = Len(table[ctor[t].sig])
               /\ Len(table'[ctor[t].sig]) = id[ctor[t].shim] + 1
               /\ table'[ctor[t].sig][id[ctor[t].shim] + 1] =
                     [engine |-> ctor[t].engine, fun |-> ctor[t].fun]]_vars

\* bounceShim looks up the second entry of a table.
C13_Witness ==
    \E t \in Threads :
        /\ pc[t] = "bounce_copy"
        /\ bounce[t].id = 1
        /\ Len(table[bounce[t].sig]) = 2

\* C14: no registration waits for the mutex it holds itself: the thread
\* that owns extensionTablesMutex is never at the lock() of bounceShim, and
\* never waits for itself.
C14_RegistrationNeverBlocksOnOwnGuard ==
    \A t \in Threads :
        extensionTablesMutex = t => pc[t] \notin {"bounce_lock", "deadlocked"}

\* C15: a registered shim holds the bouncer of the signature it was
\* registered under, and an invocation of it runs that signature's
\* bounceShim, which copies its entry from that signature's table.
C15_ForwardsToOwnSignature ==
    /\ \A s \in StdShims :
          registered[s] # NoFrame => bouncer[s] = registered[s].sig
    /\ \A t \in Invoking :
          bounce[t] # NoFrame
          => /\ bounce[t].sig = registered[shimCall[t].shim].sig
             /\ HasEntry(t)
                   => bounce[t].entry =
                         table[registered[shimCall[t].shim].sig]
                              [id[shimCall[t].shim] + 1]

\* Two shims registered under different signatures hold the same id, and
\* one of them is invoked and has its entry.
C15_Witness ==
    \E t \in Invoking, s \in StdShims :
        /\ HasEntry(t)
        /\ s # shimCall[t].shim
        /\ registered[s] # NoFrame
        /\ registered[s].sig # registered[shimCall[t].shim].sig
        /\ id[s] = id[shimCall[t].shim]

\* C16: a step of an invocation leaves every table, the capture slots and
\* the id and the bouncer of every shim as they are, and the frames of the
\* other threads; of its stack it changes the return slot only.
C16_InvocationFrame ==
    [][\A t \in Invoking :
          ( pc'[t] # pc[t] \/ bounce'[t] # bounce[t]
            \/ shimCall'[t] # shimCall[t] )
          => /\ table' = table
             /\ shimIdToCapture' = shimIdToCapture
             /\ shimBouncerToCapture' = shimBouncerToCapture
             /\ id' = id
             /\ bouncer' = bouncer
             /\ registered' = registered
             /\ \A u \in Threads \ {t} :
                   shimCall'[u] = shimCall[u] /\ ctor'[u] = ctor[u]
             /\ shimCall'[t] # NoFrame
                   => /\ shimCall'[t].shim = shimCall[t].shim
                      /\ shimCall'[t].stack.args = shimCall[t].stack.args
                      /\ shimCall'[t].stack.ret # shimCall[t].stack.ret
                            => pc[t] = "bounce_write"]_vars

\* An invocation has written its return slot while the capture slots hold
\* what a registration put there.
C16_Witness ==
    \E t \in Invoking :
        /\ pc[t] = "bounce_return"
        /\ shimCall[t].stack.ret # NoCell
        /\ ~SlotsEmpty

====
